---- MODULE Spec2Model ----
(***************************************************************************)
(* Model of mulefish/search_toy: the similarity ranking routines and the   *)
(* class-level caches of the REST view.                                    *)
(*                                                                         *)
(* Three programs rank stored vectors against a query vector:              *)
(*   "server"  search/views.py           SearchAPIView.post                *)
(*   "cli"     tdd_embedded_search.py    main / print_ranked_results       *)
(*   "orig"    tdd_embedded_search_orig  SemanticProductSearch.search      *)
(* A behaviour is one process running one of them.                         *)
(*                                                                         *)
(* Numbers.  Floating-point values are integers counted in units of 1/One  *)
(* (One = 16 is 1.0).  Vector components are counted in units of 1/4, so    *)
(* the product of two components is already in units of 1/16.  A binary    *)
(* float type is its significand width: Round(x, p) is x rounded to p      *)
(* significant bits, ties to even.  P32 and P64 are the (scaled-down)      *)
(* widths of numpy.float32 and of Python's float.                          *)
(*                                                                         *)
(* Items.  An item tuple (item_id, name, category) is modelled by item_id: *)
(* name and category are carried along unchanged by every routine.         *)
(***************************************************************************)
EXTENDS Integers, Sequences, FiniteSets

\* ------------------------------------------------------------------ bounds

\* Largest number of rows of search_embedding.
MaxN == 3
\* Largest top_k passed to SemanticProductSearch.search (the smallest is -1).
MaxTopK == 4
\* The ghost counter of database reads saturates here.
LoadCap == 2
\* Largest number of search_item rows deleted through the admin site.
MaxDeletes == 1
\* Largest number of rows of search_embedding where two calls are compared.
MaxIdemN == 2
\* Significand bits of the model's float32 and float64.
P32 == 3
P64 == 6

\* --------------------------------------------------------- program constants

\* The literal 1.0, in units of 1/16.
One == 16
\* indexed[:2]
ViewTopK == 2

\* ------------------------------------------------------------------ inputs

\* Embedding vectors a row of search_embedding may hold: a store seeded by
\* the model the process queries with (D = 2), or by another model (D = 3).
\* <<4, 0>> and <<0, 4>> are the unit vectors [1, 0] and [0, 1]; <<-8, 1>> is
\* [-2, 0.25], a vector nobody normalized.
VecPool == { <<4, 0>>, <<0, 4>>, <<-8, 1>> }
VecPoolOther == { <<4, 0, 0>> }

\* request.data.get('query'): missing, whitespace only, or a text.
Missing == "<missing>"
QueryInputs == { Missing, " ", "relax", " pace " }

\* The query strings a program can pass to the embedding model.
QueryTexts == { "relax", "pace" }

TopKs == (-1)..MaxTopK

Threads == { "t1", "t2" }

\* ---------------------------------------------------------------- helpers

Min(a, b) == IF a <= b THEN a ELSE b
Max(a, b) == IF a >= b THEN a ELSE b
Abs(x) == IF x < 0 THEN -x ELSE x

RECURSIVE Pow2(_)
Pow2(n) == IF n <= 0 THEN 1 ELSE 2 * Pow2(n - 1)

\* Python's None and a value that is not None.
None == [set |-> FALSE, val |-> <<>>]
Some(v) == [set |-> TRUE, val |-> v]

\* --------------------------------------------------------- floating point

\* The least k with a < 2^(p + k).
RECURSIVE Shift(_, _, _)
Shift(a, p, k) == IF a < Pow2(p + k) THEN k ELSE Shift(a, p, k + 1)

\* x rounded to p significant bits, round-half-to-even.
Round(x, p) ==
  LET a == Abs(x)
      k == Shift(a, p, 0)
      u == Pow2(k)
      q == a \div u
      r == a % u
      m == IF 2 * r > u \/ (2 * r = u /\ q % 2 = 1) THEN q + 1 ELSE q
  IN  IF x < 0 THEN -(m * u) ELSE m * u

\* float(x) for a numpy.float32 x: widening.
PyFloat(x) == Round(x, P64)

\* ------------------------------------------------------ embedding and matmul

\* (request.data.get('query') or '').strip()
Strip(q) ==
  CASE q = Missing -> ""
    [] q = " " -> ""
    [] q = " pace " -> "pace"
    [] OTHER -> q

\* model.encode(query, convert_to_numpy=True): the pre-trained model is a fixed
\* function from text to a float32 vector of the model's dimension.
Encode(text) ==
  CASE text = "relax" -> <<4, 0>>
    [] text = "pace" -> <<1, 1>>
    [] OTHER -> <<0, 0>>

\* The float32 dot product of two vectors of equal length, accumulated left
\* to right.
RECURSIVE DotFrom(_, _, _, _)
DotFrom(v, q, i, acc) ==
  IF i > Len(v) THEN acc
  ELSE DotFrom(v, q, i + 1, Round(acc + Round(v[i] * q[i], P32), P32))

Dot(v, q) == DotFrom(v, q, 1, 0)

\* A matrix product that pairs up as many components as both sides have
\* instead of refusing operands of different dimensions.
MatmulUnchecked(emb, qv) ==
  [ok |-> TRUE,
   val |-> [i \in 1..Len(emb) |->
              LET m == Min(Len(emb[i]), Len(qv))
              IN  Dot(SubSeq(emb[i], 1, m), SubSeq(qv, 1, m))]]

\* embeddings @ query_vec, np.dot(embeddings, query_embedding): numpy raises
\* ValueError when the core dimensions differ.
Matmul(emb, qv) ==
  IF \E i \in 1..Len(emb) : Len(emb[i]) # Len(qv)
  THEN [ok |-> FALSE, val |-> <<>>]
  ELSE [ok |-> TRUE, val |-> [i \in 1..Len(emb) |-> Dot(emb[i], qv)]]

\* ------------------------------------------------------------ list routines

\* list(zip(items, sims)): as long as the shorter of the two.
Zip(its, sims) ==
  [i \in 1..Min(Len(its), Len(sims)) |-> [item |-> its[i], sim |-> sims[i]]]

\* The slice taken one element too long: seq[:k + 1].
SlicePrefixInclusive(seq, k) == SubSeq(seq, 1, Min(Max(k, 0) + 1, Len(seq)))

\* seq[:k] with Python's slice rules (a negative k counts from the end).
SlicePrefix(seq, k) ==
  LET n == IF k >= 0 THEN Min(k, Len(seq)) ELSE Max(Len(seq) + k, 0)
  IN  SubSeq(seq, 1, n)

\* seq[::-1]
Reverse(seq) == [i \in 1..Len(seq) |-> seq[Len(seq) + 1 - i]]

\* The insertion of a sort that forgot reverse=True: ascending.
RECURSIVE InsertAscending(_, _)
InsertAscending(x, sorted) ==
  IF sorted = <<>> THEN <<x>>
  ELSE IF Head(sorted).sim <= x.sim
       THEN <<Head(sorted)>> \o InsertAscending(x, Tail(sorted))
       ELSE <<x>> \o sorted

\* The insertion of a descending sort that is not stable: x goes in front of
\* the elements equal to it.
RECURSIVE InsertBeforeEquals(_, _)
InsertBeforeEquals(x, sorted) ==
  IF sorted = <<>> THEN <<x>>
  ELSE IF Head(sorted).sim > x.sim
       THEN <<Head(sorted)>> \o InsertBeforeEquals(x, Tail(sorted))
       ELSE <<x>> \o sorted

\* Where x goes in a list already sorted by descending sim: behind every
\* element whose sim is at least x's (the sort is stable).
RECURSIVE InsertDesc(_, _)
InsertDesc(x, sorted) ==
  IF sorted = <<>> THEN <<x>>
  ELSE IF Head(sorted).sim >= x.sim
       THEN <<Head(sorted)>> \o InsertDesc(x, Tail(sorted))
       ELSE <<x>> \o sorted

\* indexed.sort(key=lambda x: x[1], reverse=True): stable, descending.
RECURSIVE SortFrom(_, _, _)
SortFrom(seq, i, acc) ==
  IF i > Len(seq) THEN acc ELSE SortFrom(seq, i + 1, InsertDesc(seq[i], acc))

SortDesc(seq) == SortFrom(seq, 1, <<>>)

\* Where index i goes in a list of indices already sorted by ascending
\* sims: numpy's default argsort is not a stable sort, so equal keys come out
\* in index order ("asc", what its insertion sort on short arrays does) or in
\* another order ("desc"), always the same one in a given build.
RECURSIVE InsertAsc(_, _, _, _)
InsertAsc(i, sorted, sims, ties) ==
  IF sorted = <<>> THEN <<i>>
  ELSE LET j == Head(sorted)
       IN  IF sims[j] < sims[i] \/ (sims[j] = sims[i] /\ ties = "asc")
           THEN <<j>> \o InsertAsc(i, Tail(sorted), sims, ties)
           ELSE <<i>> \o sorted

\* np.argsort(similarities)
RECURSIVE ArgsortFrom(_, _, _, _)
ArgsortFrom(sims, ties, i, acc) ==
  IF i > Len(sims) THEN acc
  ELSE ArgsortFrom(sims, ties, i + 1, InsertAsc(i, acc, sims, ties))

Argsort(sims, ties) == ArgsortFrom(sims, ties, 1, <<>>)

\* ------------------------------------------------------------- the rankers

\* What a call hands back to its caller.  match_count is the literal 0 of
\* the view's two early responses; the scripts have no such field.
Outcome(status, error, message, ranked, results) ==
  [status |-> status, error |-> error, message |-> message,
   ranked |-> ranked, results |-> results, match_count |-> 0]

\* float(1.0 - sim) for a numpy.float32 sim: NumPy 1.x promotes the Python
\* float and the float32 scalar to float64, NumPy 2 (NEP 50) keeps float32.
ViewDistance(sim, promo) ==
  IF promo = "nep50"
  THEN PyFloat(Round(One - sim, P32))
  ELSE Round(One - PyFloat(sim), P64)

\* One entry of the response's results: the serialized item with its scores.
ViewResult(x, promo) ==
  [item |-> x.item, similarity |-> PyFloat(x.sim),
   distance |-> ViewDistance(x.sim, promo)]

\* A response that counts the ranked entries instead of the results.
ViewResponseCountingRanked(indexed, results) ==
  [Outcome("ok", "none", "none", indexed, results)
     EXCEPT !.match_count = Len(indexed)]

\* Response({'results': results, 'match_count': len(results)})
ViewResponse(indexed, results) ==
  [Outcome("ok", "none", "none", indexed, results)
     EXCEPT !.match_count = Len(results)]

\* SearchAPIView.post from the query vector on: score, sort, keep two, look
\* the items up in search_item and serialize those found.
ViewRank(its, emb, qv, table, promo) ==
  LET mm == Matmul(emb, qv)
      indexed == SlicePrefix(SortDesc(Zip(its, mm.val)), ViewTopK)
      found == SelectSeq(indexed, LAMBDA x : x.item \in table)
  IN  IF ~mm.ok
      THEN Outcome("error", "ValueError", "none", <<>>, <<>>)
      ELSE ViewResponse(indexed,
                        [i \in 1..Len(found) |-> ViewResult(found[i], promo)])

\* The two responses post gives without ranking.
TypeSomething == Outcome("ok", "none", "type_something", <<>>, <<>>)
NoEmbeddings == Outcome("ok", "none", "no_embeddings", <<>>, <<>>)

\* print_ranked_results: sort, then print the best match (indexed[0] of an
\* empty list raises IndexError).  The values are those handed to the
\* format string.
PrintRanked(products, sims) ==
  LET indexed == SortDesc(Zip(products, sims))
      best == indexed[1]
  IN  IF indexed = <<>>
      THEN Outcome("error", "IndexError", "none", <<>>, <<>>)
      ELSE Outcome("ok", "none", "none", indexed,
                   << [item |-> best.item, similarity |-> best.sim,
                       distance |-> Round(One - PyFloat(best.sim), P64)] >>)

\* SemanticProductSearch.search once the embeddings are there.
Search(its, emb, qv, top_k, ties) ==
  LET mm == Matmul(emb, qv)
      top_indices == SlicePrefix(Reverse(Argsort(mm.val, ties)), top_k)
      results == [i \in 1..Len(top_indices) |->
                    [item |-> its[top_indices[i]],
                     similarity |-> PyFloat(mm.val[top_indices[i]])]]
  IN  IF ~mm.ok
      THEN Outcome("error", "ValueError", "none", <<>>, <<>>)
      ELSE Outcome("ok", "none", "none",
                   [i \in 1..Len(results) |->
                      [item |-> results[i].item, sim |-> results[i].similarity]],
                   results)

\* ------------------------------------------------------------------ storage

\* Rows of search_embedding in item_id order: ids 1..n, n <= MaxN, all
\* vectors of one dimension, no two items with the same embedding.
RowsOver(pool, n) ==
  { [i \in 1..n |-> [id |-> i, vec |-> f[i]]] :
      f \in { g \in [1..n -> pool] : \A i, j \in 1..n : i # j => g[i] # g[j] } }

Stores ==
  UNION { RowsOver(VecPool, n) : n \in 0..MaxN }
    \cup UNION { RowsOver(VecPoolOther, n) : n \in 1..MaxN }

\* items.append((item_id, name, category)) for every row
ItemsOf(rs) == [i \in 1..Len(rs) |-> rs[i].id]

\* The matrix built without the test for an empty list.
VstackAlways(rs) == Some([i \in 1..Len(rs) |-> rs[i].vec])

\* np.vstack(vectors) if vectors else None
Vstack(rs) ==
  IF rs = <<>> THEN None ELSE Some([i \in 1..Len(rs) |-> rs[i].vec])

\* -------------------------------------------------------------------- state

VARIABLES
  program,      \* which program this process runs
  promotion,    \* the NumPy build's scalar promotion: "legacy" or "nep50"
  argsortTies,  \* the NumPy build's argsort order of equal keys
  seeded,       \* search_embedding as db_setup.py filled it
  dbRows,       \* table search_embedding, in item_id order
  itemTable,    \* ids of table search_item
  deletes,      \* search_item rows deleted so far
  items,        \* cls._items_cache / products / self.items
  embeddings,   \* cls._embeddings_cache / embeddings / self.embeddings
  model,        \* cls._model / model / self.model
  pc,           \* where each server thread is in post
  query,        \* post's local query, per thread
  rows,         \* _load_embeddings' local rows, per thread
  loc,          \* post's locals items, embeddings, per thread
  storeChanged, \* whether a table changed under the thread's current post
  mainPc,       \* where the cli or orig script is
  mainQuery,    \* main's loop variable query
  sims,         \* main's local sims
  out,          \* the call that has just returned, or NoCall
  loads,        \* how many times search_embedding was read (saturating)
  remembered    \* an earlier call, kept for comparison

vars ==
  <<program, promotion, argsortTies, seeded, dbRows, itemTable, deletes, items,
    embeddings, model, pc, query, rows, loc, storeChanged, mainPc, mainQuery,
    sims, out, loads, remembered>>

build == <<program, promotion, argsortTies, seeded>>
database == <<dbRows, itemTable, deletes>>
threads == <<pc, query, rows, loc, storeChanged>>
main == <<mainPc, mainQuery, sims>>

\* A returned call: who was called with what, what it read, what the tables
\* held when it returned and whether they had held that all through the call,
\* and what it gave.
Call(prog, q, k, its, emb, table, store, steady, o) ==
  [prog |-> prog, query |-> q, top_k |-> k,
   inItems |-> its, inEmb |-> emb, inTable |-> table,
   store |-> store, steady |-> steady,
   status |-> o.status, error |-> o.error, message |-> o.message,
   ranked |-> o.ranked, results |-> o.results,
   match_count |-> o.match_count]

NoCall == Call("none", "", 0, <<>>, <<>>, {}, <<>>, TRUE,
               Outcome("none", "none", "none", <<>>, <<>>))

NoLocals == [items |-> None, emb |-> None]

Init ==
  /\ program \in {"server", "cli", "orig"}
  /\ promotion \in (IF program = "server" THEN {"legacy", "nep50"} ELSE {"legacy"})
  /\ argsortTies \in (IF program = "orig" THEN {"asc", "desc"} ELSE {"asc"})
  /\ seeded \in Stores
  /\ dbRows = seeded
  /\ itemTable = { dbRows[i].id : i \in 1..Len(dbRows) }
  /\ deletes = 0
  /\ items = IF program = "orig" THEN Some(<<>>) ELSE None
  /\ embeddings = None
  /\ model = IF program = "orig" THEN "loaded" ELSE "none"
  /\ pc = [t \in Threads |-> "idle"]
  /\ query = [t \in Threads |-> ""]
  /\ rows = [t \in Threads |-> <<>>]
  /\ loc = [t \in Threads |-> NoLocals]
  /\ storeChanged = [t \in Threads |-> FALSE]
  /\ mainPc = "start"
  /\ mainQuery = ""
  /\ sims = <<>>
  /\ out = NoCall
  /\ loads = 0
  /\ remembered = NoCall

\* ----------------------------------------------------------- the REST view

\* A post that loads the model before it looks at the query.
PostLoadingModelFirst(t, q) ==
  /\ program = "server"
  /\ pc[t] = "idle"
  /\ model' = "loaded"
  /\ IF Strip(q) = ""
     THEN /\ out' = Call("server", "", ViewTopK, <<>>, <<>>, {}, dbRows, TRUE,
                         TypeSomething)
          /\ UNCHANGED <<pc, query>>
     ELSE /\ out' = NoCall
          /\ pc' = [pc EXCEPT ![t] = "load_check"]
          /\ query' = [query EXCEPT ![t] = Strip(q)]
  /\ UNCHANGED <<build, database, items, embeddings, rows, loc, storeChanged,
                 main, loads, remembered>>

\* post, lines 64-66: a blank query is answered at once; any other query goes
\* on to _load_embeddings.
Post(t, q) ==
  /\ program = "server"
  /\ pc[t] = "idle"
  /\ IF Strip(q) = ""
     THEN /\ out' = Call("server", "", ViewTopK, <<>>, <<>>, {}, dbRows, TRUE,
                         TypeSomething)
          /\ UNCHANGED <<pc, query>>
     ELSE /\ out' = NoCall
          /\ pc' = [pc EXCEPT ![t] = "load_check"]
          /\ query' = [query EXCEPT ![t] = Strip(q)]
  /\ UNCHANGED <<build, database, items, embeddings, model, rows, loc,
                 storeChanged, main, loads, remembered>>

\* _load_embeddings, line 36: if cls._embeddings_cache is None
LoadCheck(t) ==
  /\ pc[t] = "load_check"
  /\ pc' = [pc EXCEPT ![t] = IF embeddings.set THEN "ret_items" ELSE "load_query"]
  /\ out' = NoCall
  /\ UNCHANGED storeChanged
  /\ UNCHANGED <<build, database, items, embeddings, model, query, rows, loc,
                 main, loads, remembered>>

\* _load_embeddings, lines 37-50: read every row of search_embedding.
LoadQuery(t) ==
  /\ pc[t] = "load_query"
  /\ rows' = [rows EXCEPT ![t] = dbRows]
  /\ loads' = Min(loads + 1, LoadCap)
  /\ pc' = [pc EXCEPT ![t] = "set_items"]
  /\ out' = NoCall
  /\ UNCHANGED storeChanged
  /\ UNCHANGED <<build, database, items, embeddings, model, query, loc, main,
                 remembered>>

\* _load_embeddings, lines 52-59: cls._items_cache = items
SetItems(t) ==
  /\ pc[t] = "set_items"
  /\ items' = Some(ItemsOf(rows[t]))
  /\ pc' = [pc EXCEPT ![t] = "set_emb"]
  /\ out' = NoCall
  /\ UNCHANGED storeChanged
  /\ UNCHANGED <<build, database, embeddings, model, query, rows, loc, main,
                 loads, remembered>>

\* _load_embeddings, line 60: cls._embeddings_cache = np.vstack(vectors) ...
SetEmb(t) ==
  /\ pc[t] = "set_emb"
  /\ embeddings' = Vstack(rows[t])
  /\ rows' = [rows EXCEPT ![t] = <<>>]
  /\ pc' = [pc EXCEPT ![t] = "ret_items"]
  /\ out' = NoCall
  /\ UNCHANGED storeChanged
  /\ UNCHANGED <<build, database, items, model, query, loc, main, loads,
                 remembered>>

\* _load_embeddings, line 61: the first operand of the returned pair.
RetItems(t) ==
  /\ pc[t] = "ret_items"
  /\ loc' = [loc EXCEPT ![t].items = items]
  /\ pc' = [pc EXCEPT ![t] = "ret_emb"]
  /\ out' = NoCall
  /\ UNCHANGED storeChanged
  /\ UNCHANGED <<build, database, items, embeddings, model, query, rows, main,
                 loads, remembered>>

\* _load_embeddings, line 61: the second operand, then post's lines 68-70.
RetEmb(t) ==
  /\ pc[t] = "ret_emb"
  /\ IF embeddings.set
     THEN /\ loc' = [loc EXCEPT ![t].emb = embeddings]
          /\ pc' = [pc EXCEPT ![t] = "model_check"]
          /\ out' = NoCall
          /\ UNCHANGED <<query, storeChanged>>
     ELSE /\ out' = Call("server", query[t], ViewTopK, loc[t].items.val, <<>>,
                         {}, dbRows, ~storeChanged[t], NoEmbeddings)
          /\ loc' = [loc EXCEPT ![t] = NoLocals]
          /\ pc' = [pc EXCEPT ![t] = "idle"]
          /\ query' = [query EXCEPT ![t] = ""]
          /\ storeChanged' = [storeChanged EXCEPT ![t] = FALSE]
  /\ UNCHANGED <<build, database, items, embeddings, model, rows, main, loads,
                 remembered>>

\* _load_model, line 30: if cls._model is None
ModelCheck(t) ==
  /\ pc[t] = "model_check"
  /\ pc' = [pc EXCEPT ![t] = IF model = "none" THEN "model_set" ELSE "rank"]
  /\ out' = NoCall
  /\ UNCHANGED storeChanged
  /\ UNCHANGED <<build, database, items, embeddings, model, query, rows, loc,
                 main, loads, remembered>>

\* _load_model, line 31: cls._model = SentenceTransformer(cls.MODEL_NAME)
ModelSet(t) ==
  /\ pc[t] = "model_set"
  /\ model' = "loaded"
  /\ pc' = [pc EXCEPT ![t] = "rank"]
  /\ out' = NoCall
  /\ UNCHANGED storeChanged
  /\ UNCHANGED <<build, database, items, embeddings, query, rows, loc, main,
                 loads, remembered>>

\* A post that sorts the cached item list itself instead of a copy of it.
RankSortingCache(t) ==
  /\ pc[t] = "rank"
  /\ out' = Call("server", query[t], ViewTopK, loc[t].items.val, loc[t].emb.val,
                 itemTable, dbRows, ~storeChanged[t],
                 ViewRank(loc[t].items.val, loc[t].emb.val, Encode(query[t]),
                          itemTable, promotion))
  /\ LET mm == Matmul(loc[t].emb.val, Encode(query[t]))
         sorted == SortDesc(Zip(loc[t].items.val, mm.val))
     IN  items' = IF mm.ok
                  THEN Some([i \in 1..Len(sorted) |-> sorted[i].item])
                  ELSE items
  /\ loc' = [loc EXCEPT ![t] = NoLocals]
  /\ pc' = [pc EXCEPT ![t] = "idle"]
  /\ query' = [query EXCEPT ![t] = ""]
  /\ storeChanged' = [storeChanged EXCEPT ![t] = FALSE]
  /\ UNCHANGED <<build, database, embeddings, model, rows, main, loads,
                 remembered>>

\* post, lines 73-97: encode, rank, look the items up, respond (or let numpy's
\* ValueError out).
Rank(t) ==
  /\ pc[t] = "rank"
  /\ out' = Call("server", query[t], ViewTopK, loc[t].items.val, loc[t].emb.val,
                 itemTable, dbRows, ~storeChanged[t],
                 ViewRank(loc[t].items.val, loc[t].emb.val, Encode(query[t]),
                          itemTable, promotion))
  /\ loc' = [loc EXCEPT ![t] = NoLocals]
  /\ pc' = [pc EXCEPT ![t] = "idle"]
  /\ query' = [query EXCEPT ![t] = ""]
  /\ storeChanged' = [storeChanged EXCEPT ![t] = FALSE]
  /\ UNCHANGED <<build, database, items, embeddings, model, rows, main, loads,
                 remembered>>

\* The admin site deletes an Item; ON DELETE CASCADE takes its embedding row.
AdminDeleteItem(id) ==
  /\ program = "server"
  /\ deletes < MaxDeletes
  /\ id \in itemTable
  /\ itemTable' = itemTable \ {id}
  /\ dbRows' = SelectSeq(dbRows, LAMBDA r : r.id # id)
  /\ deletes' = deletes + 1
  /\ out' = NoCall
  /\ UNCHANGED <<build, items, embeddings, model, threads, main, loads,
                 remembered>>

\* The same deletion, with a note of the posts it fell under.
AdminDeleteItemNoted(id) ==
  /\ program = "server"
  /\ deletes < MaxDeletes
  /\ id \in itemTable
  /\ itemTable' = itemTable \ {id}
  /\ dbRows' = SelectSeq(dbRows, LAMBDA r : r.id # id)
  /\ deletes' = deletes + 1
  /\ storeChanged' = [t \in Threads |-> pc[t] # "idle"]
  /\ out' = NoCall
  /\ UNCHANGED <<build, items, embeddings, model, pc, query, rows, loc, main,
                 loads, remembered>>

\* ---------------------------------------------------------- the cli script

\* main, lines 92-98: load_products_and_vectors (RuntimeError when the table
\* has no rows), then the model.
CliLoad ==
  /\ program = "cli"
  /\ mainPc = "start"
  /\ loads' = Min(loads + 1, LoadCap)
  /\ IF dbRows = <<>>
     THEN /\ out' = Call("cli", "", 1, <<>>, <<>>, {}, dbRows, TRUE,
                         Outcome("error", "RuntimeError", "no_embeddings", <<>>, <<>>))
          /\ mainPc' = "crashed"
          /\ UNCHANGED <<items, embeddings, model>>
     ELSE /\ out' = NoCall
          /\ items' = Some(ItemsOf(dbRows))
          /\ embeddings' = Vstack(dbRows)
          /\ model' = "loaded"
          /\ mainPc' = "ready"
  /\ UNCHANGED <<build, database, threads, mainQuery, sims, remembered>>

\* main, line 106: sims = compute_distances(model, query, embeddings)
CliCompute(q) ==
  /\ program = "cli"
  /\ mainPc = "ready"
  /\ LET mm == Matmul(embeddings.val, Encode(q))
     IN  IF mm.ok
         THEN /\ sims' = mm.val
              /\ mainQuery' = q
              /\ mainPc' = "computed"
              /\ out' = NoCall
         ELSE /\ out' = Call("cli", q, 1, items.val, embeddings.val, {}, dbRows, TRUE,
                             Outcome("error", "ValueError", "none", <<>>, <<>>))
              /\ mainPc' = "crashed"
              /\ UNCHANGED <<sims, mainQuery>>
  /\ UNCHANGED <<build, database, items, embeddings, model, threads, loads,
                 remembered>>

\* main, line 109: print_ranked_results(query, products, sims)
CliPrint ==
  /\ program = "cli"
  /\ mainPc = "computed"
  /\ out' = Call("cli", mainQuery, 1, items.val, embeddings.val, {}, dbRows, TRUE,
                 PrintRanked(items.val, sims))
  /\ mainPc' = "ready"
  /\ UNCHANGED <<build, database, items, embeddings, model, threads, mainQuery,
                 sims, loads, remembered>>

\* ------------------------------------------------- SemanticProductSearch

\* index_products: self.items = products, self.embeddings = encode(texts).
\* The products are the catalogue, one row each; the script indexes a
\* non-empty list.
OrigIndex ==
  /\ program = "orig"
  /\ mainPc = "start"
  /\ dbRows # <<>>
  /\ items' = Some(ItemsOf(dbRows))
  /\ embeddings' = Vstack(dbRows)
  /\ mainPc' = "indexed"
  /\ out' = NoCall
  /\ UNCHANGED <<build, database, model, threads, mainQuery, sims, loads,
                 remembered>>

\* search(query, top_k): ValueError before index_products, else the ranking.
OrigSearch(q, k) ==
  /\ program = "orig"
  /\ out' = IF ~embeddings.set
            THEN Call("orig", q, k, items.val, <<>>, {}, dbRows, TRUE,
                      Outcome("error", "ValueError", "no_products_indexed", <<>>, <<>>))
            ELSE Call("orig", q, k, items.val, embeddings.val, {}, dbRows, TRUE,
                      Search(items.val, embeddings.val, Encode(q), k, argsortTies))
  /\ UNCHANGED <<build, database, items, embeddings, model, threads, main,
                 loads, remembered>>

\* ------------------------------------------------------------ specification

\* A caller keeps the call that has just returned, to compare a later one
\* with it.
Remember ==
  /\ out # NoCall
  /\ remembered = NoCall
  /\ remembered' = out
  /\ out' = NoCall
  /\ UNCHANGED <<build, database, items, embeddings, model, threads, main,
                 loads>>

Serve ==
  \/ \E t \in Threads, q \in QueryInputs : Post(t, q)
  \/ \E t \in Threads : LoadCheck(t)
  \/ \E t \in Threads : LoadQuery(t)
  \/ \E t \in Threads : SetItems(t)
  \/ \E t \in Threads : SetEmb(t)
  \/ \E t \in Threads : RetItems(t)
  \/ \E t \in Threads : RetEmb(t)
  \/ \E t \in Threads : ModelCheck(t)
  \/ \E t \in Threads : ModelSet(t)
  \/ \E t \in Threads : Rank(t)
  \/ CliLoad
  \/ \E q \in QueryTexts : CliCompute(q)
  \/ CliPrint
  \/ OrigIndex
  \/ \E q \in QueryTexts, k \in TopKs : OrigSearch(q, k)

Next ==
  \/ Serve
  \/ \E id \in 1..MaxN : AdminDeleteItem(id)

Spec == Init /\ [][Next]_vars

\* The same program over the stores of at most MaxIdemN rows, on one NumPy
\* build (both calls of a comparison run on the same build), with a caller
\* that compares two calls and knows which posts a deletion fell under.
InitIdem == Init /\ Len(seeded) <= MaxIdemN /\ promotion = "legacy"

NextIdem ==
  \/ Serve
  \/ \E id \in 1..MaxN : AdminDeleteItemNoted(id)
  \/ Remember

SpecIdem == InitIdem /\ [][NextIdem]_vars

\* ------------------------------------------------------------------ claims

\* The call that has just returned ranked its store: no blank query, no
\* empty store, no error.
Ranked(c) == c.status = "ok" /\ c.message = "none" /\ c.prog # "none"

\* The number of (item, similarity) pairs the call had to rank.
PairCount(c) == Min(Len(c.inItems), Len(c.inEmb))

\* The call got as far as the store and found it empty.
FoundEmpty(c) ==
  c.prog # "none" /\ c.message # "type_something" /\ c.inEmb = <<>>

C2_SortedDescending ==
  /\ \A i \in 1..(Len(out.results) - 1) :
       out.results[i].similarity >= out.results[i + 1].similarity
  /\ \A i \in 1..(Len(out.ranked) - 1) :
       out.ranked[i].sim >= out.ranked[i + 1].sim

\* Witness of C2: post returned two results in the opposite of their load
\* order, the later item being the more similar.
C2_Reordered ==
  /\ out.prog = "server"
  /\ Len(out.results) = 2
  /\ out.results[1].item > out.results[2].item
  /\ out.results[1].similarity > out.results[2].similarity

\* Items of equal similarity stand in load order (item ids ascend with it).
TiesInLoadOrder(c) ==
  \A i, j \in 1..Len(c.ranked) :
    (i < j /\ c.ranked[i].sim = c.ranked[j].sim)
      => c.ranked[i].item < c.ranked[j].item

\* Items of equal similarity stand in the reverse of load order.
TiesInReverseOrder(c) ==
  \A i, j \in 1..Len(c.ranked) :
    (i < j /\ c.ranked[i].sim = c.ranked[j].sim)
      => c.ranked[i].item > c.ranked[j].item

\* C3 as stated: in every ranking routine, of two items with equal
\* similarity the one inserted first ranks higher.
C3_TiesInInsertionOrder == TiesInLoadOrder(out)

\* C3 amended: post and print_ranked_results keep items of equal similarity
\* in load order; search puts them in the reverse of numpy's argsort order,
\* so with a stable argsort the item inserted last ranks higher.
C3_Ties ==
  /\ out.prog \in {"server", "cli"} => TiesInLoadOrder(out)
  /\ (out.prog = "orig" /\ argsortTies = "asc") => TiesInReverseOrder(out)

\* Witness of C3: post ranked two items of equal similarity.
C3_ViewTie ==
  /\ out.prog = "server"
  /\ Len(out.ranked) = 2
  /\ out.ranked[1].sim = out.ranked[2].sim

DimensionMismatch(c) ==
  c.inEmb # <<>> /\ Len(c.inEmb[1]) # Len(Encode(c.query))

\* C5: a query vector whose length differs from the stored vectors' makes
\* the call fail (numpy's ValueError) and return no results.
C5_MismatchFails ==
  (out.prog # "none" /\ DimensionMismatch(out))
    => /\ out.status = "error"
       /\ out.error = "ValueError"
       /\ out.results = <<>>
       /\ out.ranked = <<>>

\* Witness of C5: post failed on a store of three-component vectors.
C5_ViewMismatch ==
  /\ out.prog = "server"
  /\ DimensionMismatch(out)
  /\ out.status = "error"

\* C6 as stated: the store is read and the caches are written at most once
\* whatever the requests, and no request reads the caches while another is
\* between reading the table and its last write to them.
C6_PopulatedOnce ==
  /\ loads <= 1
  /\ \A t, u \in Threads :
       (t # u /\ pc[t] \in {"set_items", "set_emb"}) => pc[u] # "ret_emb"

\* Two calls were given the same things: routine, query, top_k and store.
\* The store of post is the tables, which held the same rows all through
\* both calls; the store of the scripts is what they loaded or indexed.
SameInputs(a, b) ==
  /\ a.prog = b.prog
  /\ a.query = b.query
  /\ a.top_k = b.top_k
  /\ a.steady /\ b.steady
  /\ IF a.prog = "server"
     THEN a.store = b.store
     ELSE a.inItems = b.inItems /\ a.inEmb = b.inEmb

\* Two calls gave the same thing back.
SameOutputs(a, b) ==
  /\ a.status = b.status
  /\ a.error = b.error
  /\ a.message = b.message
  /\ a.ranked = b.ranked
  /\ a.results = b.results

\* C7 as stated: two calls with the same query over the same store give
\* identical output (items, order, similarities, distances), whatever was
\* called in between.
C7_Idempotent ==
  (out # NoCall /\ remembered # NoCall /\ SameInputs(remembered, out))
    => SameOutputs(remembered, out)

\* A step of a rank call: any step of post, print_ranked_results, search.
RankCallStep ==
  \/ program = "server" /\ pc' # pc
  \/ mainPc = "computed" /\ mainPc' = "ready"
  \/ program = "orig" /\ out' # NoCall

\* C8 as stated: a rank call leaves the item list, the vector matrix, the
\* similarity array and all process-wide state as they were.
C8_NoSideEffects ==
  [][RankCallStep => UNCHANGED <<items, embeddings, model, sims>>]_vars

\* C8 amended: the ranking steps (post from the query vector on,
\* print_ranked_results, search) leave the item list, the matrix, the model,
\* the similarity array and the tables as they were; of the process-wide
\* state post writes only the three class caches, each in its loader:
\* _items_cache and _embeddings_cache from the rows the loader read, _model
\* when it was None.
C8_Frame ==
  [][/\ \A t \in Threads :
          (pc[t] = "rank" /\ pc'[t] = "idle")
            => UNCHANGED <<items, embeddings, model, dbRows, itemTable>>
     /\ (mainPc = "computed" /\ mainPc' = "ready")
          => UNCHANGED <<items, embeddings, model, sims, dbRows, itemTable>>
     /\ (program = "orig" /\ out' # NoCall)
          => UNCHANGED <<items, embeddings, model, sims, dbRows, itemTable>>
     /\ (program = "server" /\ items' # items)
          => \E t \in Threads :
               /\ pc[t] = "set_items" /\ pc'[t] = "set_emb"
               /\ items' = Some(ItemsOf(rows[t]))
     /\ (program = "server" /\ embeddings' # embeddings)
          => \E t \in Threads :
               /\ pc[t] = "set_emb" /\ pc'[t] = "ret_items"
               /\ embeddings' = Vstack(rows[t])
     /\ (program = "server" /\ model' # model)
          => \E t \in Threads :
               pc[t] = "model_set" /\ model = "none" /\ model' = "loaded"
    ]_vars

\* Witness of C8: post has ranked two cached items into an order other than
\* the cache's, and the caches are as the call read them.
C8_RankedFromCache ==
  /\ out.prog = "server"
  /\ Len(out.ranked) = 2
  /\ out.ranked[1].item > out.ranked[2].item
  /\ items = Some(out.inItems)
  /\ embeddings = Some(out.inEmb)

\* C9 as stated: in every returned result distance is exactly 1 - similarity,
\* the similarity being the one reported in that result.
C9_DistanceIsOneMinusSimilarity ==
  out.prog \in {"server", "cli"}
    => \A i \in 1..Len(out.results) :
         out.results[i].distance = Round(One - out.results[i].similarity, P64)

\* The similarity of the stored item id to the query text.
OwnSimilarity(id, q) == PyFloat(Dot(seeded[id].vec, Encode(q)))

\* The call may return item id: post returns only items that have their row
\* in search_item.
Returnable(c, id) == c.prog = "server" => id \in c.inTable

\* The items of a call's store that may be returned and were not.
Unreturned(c) ==
  { id \in { c.inItems[i] : i \in 1..Len(c.inItems) } : Returnable(c, id) }
    \ { c.results[i].item : i \in 1..Len(c.results) }

\* C10 as stated: every returned (item, similarity) pair carries the dot
\* product of the query with that item's own vector, no unreturned item is
\* that could be returned is strictly more similar than a returned one, and
\* over the store {A: [1, 0], B: [0, 1]} the query [1, 0] has A on top with
\* similarity 1.0 and distance 0.0.
C10_OwnSimilarityOnTop ==
  Ranked(out)
    => /\ \A i \in 1..Len(out.results) :
            out.results[i].similarity =
              OwnSimilarity(out.results[i].item, out.query)
       /\ \A id \in Unreturned(out) : \A i \in 1..Len(out.results) :
            OwnSimilarity(id, out.query) <= out.results[i].similarity
       /\ (out.inItems = <<1, 2>> /\ out.inEmb = << <<4, 0>>, <<0, 4>> >>
             /\ Returnable(out, 1) /\ Returnable(out, 2)
             /\ out.query = "relax" /\ out.results # <<>>)
            => /\ out.results[1].item = 1
               /\ out.results[1].similarity = One
               /\ out.prog # "orig" => out.results[1].distance = 0

\* C11 as stated: every result of every call the ranker accepts has its
\* similarity in [-1, 1] and (where a distance is reported) its distance in
\* [0, 2].
C11_SimilarityInRange ==
  \A i \in 1..Len(out.results) :
    /\ -One <= out.results[i].similarity
    /\ out.results[i].similarity <= One
    /\ out.prog \in {"server", "cli"}
         => /\ 0 <= out.results[i].distance
            /\ out.results[i].distance <= 2 * One

\* The entries of the ranked list whose item has its row in search_item.
FoundIn(c) == SelectSeq(c.ranked, LAMBDA x : x.item \in c.inTable)

\* C12: a post with a non-blank query that ranks returns at most 2 results,
\* one for each of the (at most 2) ranked entries whose item_id has a row in
\* search_item, in ranked order, the others being dropped without an error;
\* and the match_count of every response of post is the number of results in
\* it.
C12_AtMostTwoCountedSkipping ==
  (out.prog = "server" /\ out.status = "ok")
    => /\ out.match_count = Len(out.results)
       /\ Len(out.results) <= ViewTopK
       /\ Len(out.ranked) = Min(ViewTopK, PairCount(out))
       /\ Len(out.results) = Len(FoundIn(out))
       /\ \A i \in 1..Len(out.results) :
            /\ out.results[i].item = FoundIn(out)[i].item
            /\ out.results[i].similarity = PyFloat(FoundIn(out)[i].sim)

\* Witness of C12: over a store of three rows post ranked two entries, one of
\* them without its search_item row, and answered with the other one.
C12_OneSkipped ==
  /\ out.prog = "server"
  /\ out.status = "ok"
  /\ Len(out.inItems) = 3
  /\ Len(out.ranked) = 2
  /\ Len(out.results) = 1
  /\ out.match_count = 1

\* C13 as stated: whenever _load_embeddings has returned a matrix to a post,
\* the item list it returned with it has one entry per row of the matrix and
\* entry i is the item whose vector is row i.
C13_CachesInStep ==
  \A t \in Threads :
    loc[t].emb.set
      => /\ loc[t].items.set
         /\ Len(loc[t].items.val) = Len(loc[t].emb.val)
         /\ \A i \in 1..Len(loc[t].items.val) :
              seeded[loc[t].items.val[i]].vec = loc[t].emb.val[i]

\* C14: a post whose query is missing, empty or whitespace-only answers at
\* once with no results and match_count 0, and the step leaves the model
\* cache, the item and embedding caches and every thread's place as they
\* were, with no read of the table; only a query that is not blank once
\* stripped goes on to the loaders.
C14_BlankPostLoadsNothing ==
  [][/\ (out' # NoCall /\ out'.message = "type_something")
          => /\ out'.status = "ok"
             /\ out'.results = <<>>
             /\ out'.match_count = 0
             /\ UNCHANGED <<items, embeddings, model, loads, dbRows,
                            itemTable, pc, rows, loc>>
     /\ \A t \in Threads :
          (pc[t] = "idle" /\ pc'[t] # "idle")
            => /\ pc'[t] = "load_check"
               /\ query'[t] \in QueryTexts
    ]_vars

\* Witness of C14: a blank post has just been answered on a process that has
\* served nothing else, and no cache is filled and the table was not read.
C14_BlankOnColdProcess ==
  /\ out.prog = "server"
  /\ out.message = "type_something"
  /\ out.match_count = 0
  /\ ~items.set
  /\ ~embeddings.set
  /\ model = "none"
  /\ loads = 0

====
